---- MODULE Spec2Model ----
(***************************************************************************)
(* Model of src/main.py: the Pagila analysis script.  main() checks the    *)
(* JDBC driver, creates a Spark session, loads 11 tables as temporary      *)
(* views and then runs seven SQL reports in sequence through run_query.    *)
(* The SQL of each report is evaluated over small relations.               *)
(***************************************************************************)
EXTENDS Integers, Sequences, FiniteSets, TLC

\* ------------------------------------------------------------------ bounds
MaxInventory == 3      \* inventory rows in the inventory family
MaxFilms     == 5      \* 'Children' films in the actor family
MaxCustomers == 4      \* customers in the customer family
MaxRentals   == 3      \* rentals in the rental family

\* ------------------------------------------------- constants of the program
NumTables      == 11   \* len(tables_to_load)
NumReports     == 7    \* run_query calls in main
Report2Limit   == 10   \* LIMIT 10
Report3Limit   == 1    \* LIMIT 1
Report6Limit   == 20   \* LIMIT 20
Report5MaxRank == 3    \* WHERE rnk <= 3
Report7Rank    == 1    \* WHERE rnk = 1
MinutesPerHour == 60   \* SUM(film.length) / 60.0
HoursScale     == 1000000 \* total_hours is a decimal with 6 fractional digits

tables_to_load ==
  << "actor", "category", "film", "film_actor", "film_category",
     "inventory", "rental", "payment", "customer", "address", "city" >>

\* ----------------------------------------------------------------- strings
\* Strings that are ordered or pattern-matched are sequences of characters.
CharCode ==
  [c \in {" ", "-", "A", "C", "S", "a", "b", "c", "e", "h", "i", "n", "o",
          "p", "r", "s", "t", "w", "y"} |->
     CASE c = " " -> 32  [] c = "-" -> 45  [] c = "A" -> 65  [] c = "C" -> 67
       [] c = "S" -> 83  [] c = "a" -> 97  [] c = "b" -> 98  [] c = "c" -> 99
       [] c = "e" -> 101 [] c = "h" -> 104 [] c = "i" -> 105 [] c = "n" -> 110
       [] c = "o" -> 111 [] c = "p" -> 112 [] c = "r" -> 114 [] c = "s" -> 115
       [] c = "t" -> 116 [] c = "w" -> 119 [] c = "y" -> 121]

Codes(s) == [i \in 1..Len(s) |-> CharCode[s[i]]]

\* SQL LIKE: '%' matches any run of characters, '_' one character, every
\* other pattern character matches itself only (case-sensitive).
RECURSIVE Like(_, _)
Like(s, p) ==
  IF p = <<>> THEN s = <<>>
  ELSE IF Head(p) = "%"
       THEN Like(s, Tail(p)) \/ (s # <<>> /\ Like(Tail(s), p))
       ELSE /\ s # <<>>
            /\ (Head(p) = "_" \/ Head(p) = Head(s))
            /\ Like(Tail(s), Tail(p))

StartsWithA    == <<"S","t","a","r","t","s"," ","w","i","t","h"," ","a">>
ContainsHyphen == <<"C","o","n","t","a","i","n","s"," ","h","y","p","h","e","n">>
NullLabel      == <<>>   \* a CASE without ELSE yields NULL when no WHEN matches

\* --------------------------------------------------------------- ordering
\* A sort key is a sequence of components; a component is a sequence of
\* integers (a number n ascending is <<n>>, descending <<-n>>, a string its
\* character codes).
RECURSIVE SeqLess(_, _)
SeqLess(a, b) ==
  IF b = <<>> THEN FALSE
  ELSE IF a = <<>> THEN TRUE
  ELSE IF Head(a) # Head(b) THEN Head(a) < Head(b)
  ELSE SeqLess(Tail(a), Tail(b))

KeyLess(k1, k2) ==
  \E i \in 1..Len(k1) :
     /\ \A j \in 1..(i-1) : k1[j] = k2[j]
     /\ SeqLess(k1[i], k2[i])

\* ORDER BY: every sequence of the rows in which no row precedes a row with a
\* smaller key.  Rows with equal keys may come out in any order.
RECURSIVE OrderBy(_)
OrderBy(rows) ==
  IF rows = {} THEN {<<>>}
  ELSE UNION { { <<m>> \o t : t \in OrderBy(rows \ {m}) } :
               m \in {r \in rows : \A x \in rows : ~KeyLess(x.key, r.key)} }

Limit(s, n) == SubSeq(s, 1, IF Len(s) < n THEN Len(s) ELSE n)

RECURSIVE SumOf(_, _)
\* SUM of f over a set of rows
SumOf(S, f) ==
  IF S = {} THEN 0
  ELSE LET x == CHOOSE y \in S : TRUE IN f[x] + SumOf(S \ {x}, f)

\* ------------------------------------------------------------ the database
\* Rows of the 11 Pagila tables read through JDBC.
Actor(id, fn, ln)      == [actor_id |-> id, first_name |-> fn, last_name |-> ln]
Category(id, n)        == [category_id |-> id, name |-> n]
Film(id, t, len)       == [film_id |-> id, title |-> t, length |-> len]
FilmActor(f, a)        == [film_id |-> f, actor_id |-> a]
FilmCategory(f, c)     == [film_id |-> f, category_id |-> c]
Inventory(id, f)       == [inventory_id |-> id, film_id |-> f]
Rental(id, i, c)       == [rental_id |-> id, inventory_id |-> i, customer_id |-> c]
Payment(id, r, amt)    == [payment_id |-> id, rental_id |-> r, amount |-> amt]
Customer(id, a, act)   == [customer_id |-> id, address_id |-> a, activebool |-> act]
Address(id, c)         == [address_id |-> id, city_id |-> c]
City(id, n)            == [city_id |-> id, city |-> n]

Ann == <<"A","n","n">>
Abe == <<"A","b","e">>
Cy  == <<"C","y">>

Titles == <<"Shrek", "Alien", "Shrek", "Bambi", "Dumbo", "Mulan", "Coco">>
Title(i) == Titles[((i - 1) % Len(Titles)) + 1]

Categories == { Category(1, "Children"), Category(2, "Action") }

\* A small database the families below vary one part of.
BaseDB ==
  [ actor         |-> { Actor(1, Ann, "Lee"), Actor(2, Cy, "Ray") },
    category      |-> Categories,
    film          |-> { Film(1, Title(1), 90), Film(2, Title(2), 120),
                        Film(3, Title(3), 60) },
    film_actor    |-> { FilmActor(1, 1), FilmActor(2, 2) },
    film_category |-> { FilmCategory(1, 1), FilmCategory(2, 2),
                        FilmCategory(3, 1) },
    inventory     |-> { Inventory(1, 1), Inventory(2, 2), Inventory(3, 3) },
    rental        |-> {},
    payment       |-> {},
    customer      |-> { Customer(1, 1, TRUE) },
    address       |-> { Address(1, 1) },
    city          |-> { City(1, <<"b","c">>) } ]

\* Inventory family: k <= MaxInventory copies, each of any of the 3 films.
InventoryDBs ==
  { [BaseDB EXCEPT !.inventory = { Inventory(i, f[i]) : i \in DOMAIN f }] :
      f \in UNION { [1..k -> 1..3] : k \in 0..MaxInventory } }

\* Actor family: films 1..MaxFilms are 'Children' films, film MaxFilms+1 is
\* an 'Action' film with every actor in it; actor a plays in the first n[a]
\* 'Children' films.
ActorRows ==
  { Actor(1, Cy, "Orr"), Actor(2, Ann, "Lee"), Actor(3, Abe, "Ray"),
    Actor(4, Ann, "Poe") }

ActorDB(n) ==
  [BaseDB EXCEPT
     !.actor         = ActorRows,
     !.film          = { Film(i, Title(i), 90) : i \in 1..(MaxFilms + 1) },
     !.film_category = { FilmCategory(i, IF i <= MaxFilms THEN 1 ELSE 2) :
                           i \in 1..(MaxFilms + 1) },
     !.film_actor    = { FilmActor(f, a) : <<f, a>> \in
                           { <<f, a>> \in (1..(MaxFilms + 1)) \X (1..4) :
                               f <= n[a] \/ f = MaxFilms + 1 } },
     !.inventory     = { Inventory(i, i) : i \in 1..(MaxFilms + 1) }]

\* Actors are numbered by falling film count; their first names are not in
\* that order.
ActorDBs ==
  { ActorDB(n) : n \in { m \in [1..4 -> 0..MaxFilms] :
                           \A a \in 1..3 : m[a] >= m[a+1] } }

\* Customer family: three cities with one address each; n[<<c, b>>] customers
\* of city c have activebool = b.
CityRows ==
  { City(1, <<"b","c">>), City(2, <<"a","b">>), City(3, <<"b","-","c">>) }

Cells == (1..3) \X BOOLEAN

CustomerDB(n) ==
  [BaseDB EXCEPT
     !.city     = CityRows,
     !.address  = { Address(c, c) : c \in 1..3 },
     !.customer = { Customer((((x[1][1] - 1) * 2 + (IF x[1][2] THEN 1 ELSE 0))
                               * (MaxCustomers + 1)) + x[2],
                             x[1][1], x[1][2]) :
                      x \in { y \in Cells \X (1..MaxCustomers) :
                                y[2] <= n[y[1]] } }]

CustomerDBs ==
  { CustomerDB(n) : n \in { m \in [Cells -> 0..MaxCustomers] :
                              SumOf(Cells, m) <= MaxCustomers } }

\* Rental family: customer 1 lives in a city of any name, customer 2 in
\* 'b-c'; film i has one inventory copy i; m[<<i, c>>] rentals of copy i by
\* customer c, each paid once.
CityNames ==
  { <<"a","b">>, <<"A","b">>, <<"b","-","c">>, <<"a","-","b">>,
    <<"b","c">>, <<"A","-","b">> }

Slots == (1..3) \X (1..2)

RentalId(i, c, j) == (((i - 1) * 2 + (c - 1)) * (MaxRentals + 1)) + j

RentalDB(name, m) ==
  LET rs == { x \in Slots \X (1..MaxRentals) : x[2] <= m[x[1]] }
  IN [BaseDB EXCEPT
        !.film          = { Film(1, Title(1), 60), Film(2, Title(2), 60),
                            Film(3, Title(4), 120) },
        !.film_category = { FilmCategory(1, 1), FilmCategory(2, 2),
                            FilmCategory(3, 2) },
        !.film_actor    = { FilmActor(1, 1), FilmActor(2, 2), FilmActor(3, 2) },
        !.city          = { City(1, name), City(2, <<"b","-","c">>) },
        !.address       = { Address(1, 1), Address(2, 2) },
        !.customer      = { Customer(1, 1, TRUE), Customer(2, 2, FALSE) },
        !.rental        = { Rental(RentalId(x[1][1], x[1][2], x[2]),
                                   x[1][1], x[1][2]) : x \in rs },
        !.payment       = { Payment(RentalId(x[1][1], x[1][2], x[2]),
                                    RentalId(x[1][1], x[1][2], x[2]),
                                    IF x[1][1] = 3 THEN 499 ELSE 299) :
                              x \in rs }]

RentalDBs ==
  { RentalDB(name, m) :
      name \in CityNames,
      m \in { k \in [Slots -> 0..MaxRentals] : SumOf(Slots, k) <= MaxRentals } }

Databases == InventoryDBs \cup ActorDBs \cup CustomerDBs \cup RentalDBs

\* ------------------------------------------------------------- the reports
\* Each report is the set of row sequences spark.sql(sql_query) may return
\* over the registered views v.

\* RANK(): a new value gets its row number, so ranks have gaps after ties.
RANK(s) ==
  LET r[i \in 1..Len(s)] ==
        IF i = 1 THEN 1
        ELSE IF s[i] = s[i-1] THEN r[i-1] ELSE i
  IN r

\* DENSE_RANK() over the order values s of one partition, already sorted:
\* equal values share a rank, a new value gets the previous rank plus one.
DENSE_RANK(s) ==
  LET r[i \in 1..Len(s)] ==
        IF i = 1 THEN 1
        ELSE IF s[i] = s[i-1] THEN r[i-1] ELSE r[i-1] + 1
  IN r

\* The window: rows carry their partition in .part and the window's ORDER BY
\* in .key; .rnk receives the rank.
RankedRows(rows) ==
  UNION { LET s  == CHOOSE o \in OrderBy({r \in rows : r.part = p}) : TRUE
              rk == DENSE_RANK([i \in 1..Len(s) |-> s[i].key])
          IN { [s[i] EXCEPT !.rnk = rk[i]] : i \in 1..Len(s) } :
          p \in {r.part : r \in rows} }

\* 1. films per category
Report1Row(r) == [category_name |-> r.category_name, film_count |-> r.film_count]

Report1(v) ==
  LET joined == { j \in v.category \X v.film_category :
                    j[1].category_id = j[2].category_id }
      grouped == { [category_name |-> n,
                    film_count |-> Cardinality({j \in joined : j[1].name = n}),
                    key |-> << <<0 - Cardinality({j \in joined : j[1].name = n})>> >>] :
                   n \in {j[1].name : j \in joined} }
  IN { [i \in 1..Len(s) |-> Report1Row(s[i])] : s \in OrderBy(grouped) }

\* 2. top 10 actors by number of rentals
Report2Row(r) ==
  [actor_first_name |-> r.actor.first_name,
   actor_last_name |-> r.actor.last_name, rental_count |-> r.rental_count]

Report2(v) ==
  LET ir  == { j \in v.inventory \X v.rental :
                 j[1].inventory_id = j[2].inventory_id }
      fir == { j \in v.film_actor \X ir : j[1].film_id = j[2][1].film_id }
      joined == { j \in v.actor \X fir : j[1].actor_id = j[2][1].actor_id }
      grouped == { [actor |-> a,
                    rental_count |-> Cardinality({j \in joined : j[1] = a}),
                    key |-> << <<0 - Cardinality({j \in joined : j[1] = a})>> >>] :
                   a \in {j[1] : j \in joined} }
  IN { [i \in 1..Len(Limit(s, Report2Limit)) |-> Report2Row(s[i])] :
       s \in OrderBy(grouped) }

\* 3. the category most money was spent on
Report3Row(r) == [category_name |-> r.category_name, total_spent |-> r.total_spent]

Report3(v) ==
  LET fcc == { j \in v.film_category \X v.category :
                 j[1].category_id = j[2].category_id }
      ifc == { j \in v.inventory \X fcc : j[1].film_id = j[2][1].film_id }
      rif == { j \in v.rental \X ifc : j[1].inventory_id = j[2][1].inventory_id }
      joined == { j \in v.payment \X rif : j[1].rental_id = j[2][1].rental_id }
      Name(j) == j[2][2][2][2].name
      Spent(n) == LET g == {j \in joined : Name(j) = n}
                  IN SumOf(g, [j \in g |-> j[1].amount])
      grouped == { [category_name |-> n, total_spent |-> Spent(n),
                    key |-> << <<0 - Spent(n)>> >>] :
                   n \in {Name(j) : j \in joined} }
  IN { [i \in 1..Len(Limit(s, Report3Limit)) |-> Report3Row(s[i])] :
       s \in OrderBy(grouped) }

\* 4. films that are not in the inventory
Report4Row(r) == [title |-> r.film.title]

\* WHERE EXISTS (...), the NOT dropped
InInventory(f, inventory) == \E i \in inventory : i.film_id = f.film_id

\* WHERE NOT EXISTS (SELECT 1 FROM inventory WHERE inventory.film_id = film.film_id)
NotInInventory(f, inventory) == ~ \E i \in inventory : i.film_id = f.film_id

Report4(v) ==
  LET rows == { [film |-> f, key |-> <<>>] :
                f \in { f \in v.film : NotInInventory(f, v.inventory) } }
  IN { [i \in 1..Len(s) |-> Report4Row(s[i])] : s \in OrderBy(rows) }

\* 5. top 3 actors of category 'Children'
Report5Row(r) ==
  [first_name |-> r.actor.first_name, last_name |-> r.actor.last_name,
   film_count |-> r.film_count]

actor_film_counts(v) ==
  LET fcc == { j \in v.film_category \X v.category :
                 j[1].category_id = j[2].category_id }
      ffc == { j \in v.film_actor \X fcc : j[1].film_id = j[2][1].film_id }
      joined == { j \in v.actor \X ffc : j[1].actor_id = j[2][1].actor_id }
      kept == { j \in joined : j[2][2][2].name = "Children" }
  IN { [actor |-> a, film_count |-> Cardinality({j \in kept : j[1] = a})] :
       a \in {j[1] : j \in kept} }

ranked_actors(v) ==
  RankedRows({ [actor |-> r.actor, film_count |-> r.film_count, part |-> 0,
                key |-> << <<0 - r.film_count>> >>, rnk |-> 0] :
               r \in actor_film_counts(v) })

\* WHERE rnk = 1, the filter of report 7
TopRankOnly(rows) == { r \in rows : r.rnk = Report7Rank }

\* WHERE rnk <= 3
TopRanked(rows) == { r \in rows : r.rnk <= Report5MaxRank }

Report5(v) ==
  LET kept == TopRanked(ranked_actors(v))
      rows == { [r EXCEPT !.key = << <<0 - r.film_count>>,
                                     Codes(r.actor.first_name) >>] : r \in kept }
  IN { [i \in 1..Len(s) |-> Report5Row(s[i])] : s \in OrderBy(rows) }

\* 6. active and inactive customers per city
Report6Row(r) ==
  [city |-> r.city, active_customers |-> r.active_customers,
   inactive_customers |-> r.inactive_customers]

Report6Joined(v) ==
  LET ca == { j \in v.city \X v.address : j[1].city_id = j[2].city_id }
  IN { j \in ca \X v.customer : j[1][2].address_id = j[2].address_id }

\* CASE WHEN cu.activebool = true THEN 1 ELSE 0 END
ActiveCase(cu) == IF cu.activebool = TRUE THEN 1 ELSE 0

\* the same CASE with the branches in the wrong place: counts every row
InactiveCaseElseOne(cu) == IF cu.activebool = FALSE THEN 1 ELSE 1

\* CASE WHEN cu.activebool = false THEN 1 ELSE 0 END
InactiveCase(cu) == IF cu.activebool = FALSE THEN 1 ELSE 0

Report6(v) ==
  LET joined == Report6Joined(v)
      Active(n) == LET g == {j \in joined : j[1][1].city = n}
                   IN SumOf(g, [j \in g |-> ActiveCase(j[2])])
      Inactive(n) == LET g == {j \in joined : j[1][1].city = n}
                     IN SumOf(g, [j \in g |-> InactiveCase(j[2])])
      grouped == { [city |-> n, active_customers |-> Active(n),
                    inactive_customers |-> Inactive(n),
                    key |-> << <<0 - Active(n)>>, Codes(n) >>] :
                   n \in {j[1][1].city : j \in joined} }
  IN { [i \in 1..Len(Limit(s, Report6Limit)) |-> Report6Row(s[i])] :
       s \in OrderBy(grouped) }

\* 7. per city group, the category with the most rental hours
\* the CASE with its two WHEN branches in the other order
city_group_hyphen_first(city) ==
  IF Like(city, <<"%", "-", "%">>) THEN ContainsHyphen
  ELSE IF Like(city, <<"a", "%">>) THEN StartsWithA
  ELSE NullLabel

city_group(city) ==
  IF Like(city, <<"a", "%">>) THEN StartsWithA
  ELSE IF Like(city, <<"%", "-", "%">>) THEN ContainsHyphen
  ELSE NullLabel

PreFilter(city) == Like(city, <<"a", "%">>) \/ Like(city, <<"%", "-", "%">>)

\* SUM(film.length) / 60.0, a decimal(27,6) rounded half up, in 10^-6 hours
TotalHours(minutes) ==
  (2 * minutes * HoursScale + MinutesPerHour) \div (2 * MinutesPerHour)

Report7Joined(v) ==
  LET ac   == { j \in v.address \X v.city : j[1].city_id = j[2].city_id }
      cac  == { [customer |-> j[1], city |-> j[2][2]] :
                j \in { j \in v.customer \X ac :
                          j[1].address_id = j[2][1].address_id } }
      rc   == { [rental |-> j[1], city |-> j[2].city] :
                j \in { j \in v.rental \X cac :
                          j[1].customer_id = j[2].customer.customer_id } }
      irc  == { [inventory |-> j[1], rental |-> j[2].rental, city |-> j[2].city] :
                j \in { j \in v.inventory \X rc :
                          j[1].inventory_id = j[2].rental.inventory_id } }
      firc == { [film |-> j[1], rental |-> j[2].rental, city |-> j[2].city] :
                j \in { j \in v.film \X irc :
                          j[1].film_id = j[2].inventory.film_id } }
      fcf  == { [film_category |-> j[1], film |-> j[2].film,
                 rental |-> j[2].rental, city |-> j[2].city] :
                j \in { j \in v.film_category \X firc :
                          j[1].film_id = j[2].film.film_id } }
  IN { [category |-> j[1], film |-> j[2].film, rental |-> j[2].rental,
        city |-> j[2].city] :
       j \in { j \in v.category \X fcf :
                 j[1].category_id = j[2].film_category.category_id } }

grouped_data(v) ==
  LET kept == { j \in Report7Joined(v) : PreFilter(j.city.city) }
      Minutes(g, n) ==
        LET rs == { j \in kept : city_group(j.city.city) = g
                                 /\ j.category.name = n }
        IN SumOf(rs, [j \in rs |-> j.film.length])
  IN { [city_group |-> x[1], category_name |-> x[2],
        total_hours |-> TotalHours(Minutes(x[1], x[2]))] :
       x \in { <<city_group(j.city.city), j.category.name>> : j \in kept } }

\* the window without PARTITION BY city_group
ranked_data_unpartitioned(v) ==
  RankedRows({ [city_group |-> r.city_group, category_name |-> r.category_name,
                total_hours |-> r.total_hours, part |-> 0,
                key |-> << <<0 - r.total_hours>> >>, rnk |-> 0] :
               r \in grouped_data(v) })

ranked_data(v) ==
  RankedRows({ [city_group |-> r.city_group, category_name |-> r.category_name,
                total_hours |-> r.total_hours, part |-> r.city_group,
                key |-> << <<0 - r.total_hours>> >>, rnk |-> 0] :
               r \in grouped_data(v) })

Report7Row(r) ==
  [city_group |-> r.city_group, category_name |-> r.category_name,
   total_hours |-> r.total_hours]

Report7(v) ==
  LET kept == { r \in ranked_data(v) : r.rnk = Report7Rank }
      rows == { [r EXCEPT !.key = << Codes(r.city_group) >>] : r \in kept }
  IN { [i \in 1..Len(s) |-> Report7Row(s[i])] : s \in OrderBy(rows) }

Query(r, v) ==
  CASE r = 1 -> Report1(v) [] r = 2 -> Report2(v) [] r = 3 -> Report3(v)
    [] r = 4 -> Report4(v) [] r = 5 -> Report5(v) [] r = 6 -> Report6(v)
    [] r = 7 -> Report7(v)

\* the views a report's SQL refers to
ReportTables(r) ==
  CASE r = 1 -> {"category", "film_category"}
    [] r = 2 -> {"actor", "film_actor", "inventory", "rental"}
    [] r = 3 -> {"payment", "rental", "inventory", "film_category", "category"}
    [] r = 4 -> {"film", "inventory"}
    [] r = 5 -> {"actor", "film_actor", "film_category", "category"}
    [] r = 6 -> {"city", "address", "customer"}
    [] r = 7 -> {"category", "film_category", "film", "inventory", "rental",
                 "customer", "address", "city"}

\* ------------------------------------------------------------- the program
VARIABLES
  db,        \* the tables of the PostgreSQL database
  views,     \* the temporary views registered in the Spark session
  pc,        \* "start", "load", "query", "done" (main returned), "exit"
  loaded,    \* number of tables of tables_to_load registered so far
  report,    \* the next report main runs
  out,       \* what run_query has shown for each report in this run
  prev,      \* what the previous, completed run of the script showed
  spark,     \* "none", "active", "stopped"
  exitCode,  \* NoExit while running, else the status of the process
  failure    \* "none", "winutils", "driver", "load", "query"

vars == << db, views, pc, loaded, report, out, prev, spark, exitCode, failure >>

NoExit == 0 - 1
Reports == 1..NumReports
NotRun == [ran |-> FALSE, rows |-> <<>>]
NothingRun == [r \in Reports |-> NotRun]
NoViews == [n \in {} |-> {}]

Init ==
  /\ db \in Databases
  /\ views = NoViews
  /\ pc = "start"
  /\ loaded = 0
  /\ report = 1
  /\ out = NothingRun
  /\ prev = NothingRun
  /\ spark = "none"
  /\ exitCode = NoExit
  /\ failure = "none"

\* main, lines 10-51: winutils.exe (on Windows) and the JDBC driver exist;
\* the Spark session is created.
CreateSession ==
  /\ pc = "start"
  /\ pc' = "load"
  /\ spark' = "active"
  /\ UNCHANGED << db, views, loaded, report, out, prev, exitCode, failure >>

\* main, lines 22-24 and 36-38: a file is missing, sys.exit(1) before any
\* session exists.
MissingFile ==
  /\ pc = "start"
  /\ \E what \in {"winutils", "driver"} : failure' = what
  /\ pc' = "exit"
  /\ exitCode' = 1
  /\ UNCHANGED << db, views, loaded, report, out, prev, spark >>

\* main, lines 70-75: one iteration of the loading loop.
LoadTable ==
  /\ pc = "load"
  /\ loaded < NumTables
  /\ LET t == tables_to_load[loaded + 1]
     IN views' = [n \in DOMAIN views \cup {t} |->
                    IF n = t THEN db[t] ELSE views[n]]
  /\ loaded' = loaded + 1
  /\ pc' = IF loaded + 1 = NumTables THEN "query" ELSE "load"
  /\ UNCHANGED << db, report, out, prev, spark, exitCode, failure >>

\* the except branch without spark.stop() and sys.exit(1): main goes on
LoadFailIgnored ==
  /\ pc = "load"
  /\ loaded < NumTables
  /\ pc' = "query"
  /\ failure' = "load"
  /\ UNCHANGED << db, views, loaded, report, out, prev, spark, exitCode >>

\* main, lines 77-82: reading a table raised; the session is stopped and the
\* process exits with status 1.
LoadFail ==
  /\ pc = "load"
  /\ loaded < NumTables
  /\ spark' = "stopped"
  /\ pc' = "exit"
  /\ exitCode' = 1
  /\ failure' = "load"
  /\ UNCHANGED << db, views, loaded, report, out, prev >>

\* run_query, lines 85-90, called for report r: the query is run and shown.
run_query(r) ==
  /\ pc = "query"
  /\ report = r
  /\ ReportTables(r) \subseteq DOMAIN views
  /\ \E rows \in Query(r, views) :
       out' = [out EXCEPT ![r] = [ran |-> TRUE, rows |-> rows]]
  /\ report' = r + 1
  /\ UNCHANGED << db, views, pc, loaded, prev, spark, exitCode, failure >>

\* run_query, line 89: spark.sql(...).show() raised.  Nothing catches the
\* exception: it leaves run_query and main, the interpreter prints the
\* traceback and exits with status 1; spark.stop() is not reached.
QueryFail ==
  /\ pc = "query"
  /\ report \in Reports
  /\ pc' = "exit"
  /\ exitCode' = 1
  /\ failure' = "query"
  /\ UNCHANGED << db, views, loaded, report, out, prev, spark >>

\* main, lines 199-200: all reports were shown.
Finish ==
  /\ pc = "query"
  /\ report = NumReports + 1
  /\ spark' = "stopped"
  /\ pc' = "done"
  /\ exitCode' = 0
  /\ UNCHANGED << db, views, loaded, report, out, prev, failure >>

\* lines 202-203: the script has completed and is invoked again, against the
\* same database.
Rerun ==
  /\ pc = "done"
  /\ prev' = out
  /\ out' = NothingRun
  /\ views' = NoViews
  /\ pc' = "start"
  /\ loaded' = 0
  /\ report' = 1
  /\ spark' = "none"
  /\ exitCode' = NoExit
  /\ failure' = "none"
  /\ UNCHANGED db

Next ==
  \/ CreateSession
  \/ MissingFile
  \/ LoadTable
  \/ LoadFail
  \/ \E r \in Reports : run_query(r)
  \/ QueryFail
  \/ Finish
  \/ Rerun

Spec == Init /\ [][Next]_vars

TypeOK ==
  /\ pc \in {"start", "load", "query", "done", "exit"}
  /\ loaded \in 0..NumTables
  /\ report \in 1..(NumReports + 1)
  /\ spark \in {"none", "active", "stopped"}
  /\ exitCode \in {NoExit, 0, 1}
  /\ failure \in {"none", "winutils", "driver", "load", "query"}

\* ------------------------------------------------------------ properties
\* the number of 'Children' films of an actor
ChildrenCount(a) ==
  Cardinality({ x \in { fa \in db.film_actor : fa.actor_id = a.actor_id }
                       \X { c \in db.category : c.name = "Children" }
                       \X db.film_category :
                  /\ x[1].film_id = x[3].film_id
                  /\ x[3].category_id = x[2].category_id })

ChildrenActors == { a \in db.actor : ChildrenCount(a) > 0 }

StartsWithLowerA(c) == Len(c) > 0 /\ c[1] = "a"
HasHyphen(c) == \E k \in 1..Len(c) : c[k] = "-"
GroupOf(c) == IF StartsWithLowerA(c) THEN StartsWithA ELSE ContainsHyphen
CityGroups == {StartsWithA, ContainsHyphen}

\* the rental rows of the database with their film, category and city
RentalFacts ==
  { [rental |-> r, film |-> f, category |-> c.name, city |-> ci.city] :
      <<r, f, c, ci>> \in
        { y \in db.rental \X db.film \X db.category \X db.city :
            /\ \E i \in db.inventory :
                 i.inventory_id = y[1].inventory_id /\ i.film_id = y[2].film_id
            /\ \E fc \in db.film_category :
                 fc.film_id = y[2].film_id /\ fc.category_id = y[3].category_id
            /\ \E cu \in db.customer, ad \in db.address :
                 /\ cu.customer_id = y[1].customer_id
                 /\ ad.address_id = cu.address_id
                 /\ ad.city_id = y[4].city_id } }

FactsOf(g, n) ==
  { x \in RentalFacts : /\ StartsWithLowerA(x.city) \/ HasHyphen(x.city)
                        /\ GroupOf(x.city) = g
                        /\ x.category = n }

MinutesOf(g, n) == LET fs == FactsOf(g, n) IN SumOf(fs, [x \in fs |-> x.film.length])

\* C1: report 4 shows a film's title exactly for the films that have no
\* inventory row with their film_id: each title is shown once per film of
\* that title without inventory, and nothing else is shown.
C1_AntiJoin ==
  out[4].ran =>
    LET rows == out[4].rows
    IN /\ \A i \in 1..Len(rows) : \E f \in db.film : f.title = rows[i].title
       /\ \A f \in db.film :
            Cardinality({ i \in 1..Len(rows) : rows[i].title = f.title }) =
            Cardinality({ g \in db.film :
                            /\ g.title = f.title
                            /\ \A i \in db.inventory : i.film_id # g.film_id })

C1_Witness ==
  /\ out[4].ran
  /\ \E f, g \in db.film :
       /\ f.title = g.title
       /\ \A i \in db.inventory : i.film_id # f.film_id
       /\ \E i \in db.inventory : i.film_id = g.film_id

\* C2: report 5 shows exactly the actors whose dense rank by 'Children' film
\* count, descending, is at most 3: the rank of an actor is one more than the
\* number of distinct larger counts, whatever the first names are.
C2_DenseRankTop3 ==
  out[5].ran =>
    LET rows == out[5].rows
        rank(a) == 1 + Cardinality({ ChildrenCount(b) :
                         b \in { b \in ChildrenActors :
                                   ChildrenCount(b) > ChildrenCount(a) } })
        expected == { [first_name |-> a.first_name, last_name |-> a.last_name,
                       film_count |-> ChildrenCount(a)] :
                      a \in { a \in ChildrenActors : rank(a) <= 3 } }
    IN /\ { rows[i] : i \in 1..Len(rows) } = expected
       /\ Len(rows) = Cardinality(expected)

C2_Witness ==
  /\ out[5].ran
  /\ Len(out[5].rows) = 4
  /\ out[5].rows[1].film_count = out[5].rows[2].film_count
  /\ out[5].rows[2].film_count > out[5].rows[3].film_count
  /\ out[5].rows[3].film_count > out[5].rows[4].film_count
  /\ \E a \in ChildrenActors : ChildrenCount(a) = 0 + out[5].rows[4].film_count

FiveFiveFiveThree ==
  /\ Cardinality(ChildrenActors) = 4
  /\ Cardinality({ a \in ChildrenActors : ChildrenCount(a) = 5 }) = 3
  /\ Cardinality({ a \in ChildrenActors : ChildrenCount(a) = 3 }) = 1

C4_ConditionalSums ==
  out[6].ran =>
    \A i \in 1..Len(out[6].rows) :
      LET row == out[6].rows[i]
          g == { x \in db.city \X db.address \X db.customer :
                   /\ x[1].city = row.city
                   /\ x[1].city_id = x[2].city_id
                   /\ x[2].address_id = x[3].address_id }
      IN /\ row.active_customers + row.inactive_customers = Cardinality(g)
         /\ row.active_customers = Cardinality({ x \in g : x[3].activebool })
         /\ row.inactive_customers = Cardinality({ x \in g : ~x[3].activebool })

C4_Witness ==
  /\ out[6].ran
  /\ \E i \in 1..Len(out[6].rows) :
       /\ out[6].rows[i].active_customers > 0
       /\ out[6].rows[i].inactive_customers > 0

\* C5: every joined row of report 7 that passes the pre-filter (city starts
\* with lower-case 'a' or contains '-') gets exactly one label, 'Starts with
\* a' when the city starts with 'a' (also when it contains '-'), else
\* 'Contains hyphen'; no other row passes; every passing row is counted once,
\* in the bucket of its label.
C5_BucketOnce ==
  out[7].ran =>
    /\ \A j \in Report7Joined(views) :
         LET c == j.city.city
         IN /\ PreFilter(c) = (StartsWithLowerA(c) \/ HasHyphen(c))
            /\ PreFilter(c) => city_group(c) = GroupOf(c)
    /\ \A r \in grouped_data(views) :
         /\ r.city_group \in CityGroups
         /\ FactsOf(r.city_group, r.category_name) # {}
         /\ r.total_hours = TotalHours(MinutesOf(r.city_group, r.category_name))
    /\ \A x \in RentalFacts :
         (StartsWithLowerA(x.city) \/ HasHyphen(x.city)) =>
           \E r \in grouped_data(views) :
             r.city_group = GroupOf(x.city) /\ r.category_name = x.category

C5_Witness ==
  /\ out[7].ran
  /\ \E j \in Report7Joined(views) : j.city.city = <<"a", "-", "b">>
  /\ \E r \in grouped_data(views) : r.city_group = StartsWithA

\* C6 as stated: when one report fails, the other six reports are still
\* computed.
C6_ErrorIsolation ==
  failure = "query" => \A r \in Reports \ {report} : out[r].ran

\* C7 as stated: a report run twice against the unchanged database shows the
\* same rows in the same order.
C7_Idempotent ==
  \A r \in Reports : (prev[r].ran /\ out[r].ran) => out[r].rows = prev[r].rows

\* C8: a report is run only when all 11 tables are registered; when loading a
\* table fails no report has run, the session is stopped and the process has
\* exited with status 1.
C8_FailFast ==
  /\ (pc = "query" \/ \E r \in Reports : out[r].ran) =>
       /\ loaded = NumTables
       /\ DOMAIN views = { tables_to_load[i] : i \in 1..NumTables }
       /\ \A t \in DOMAIN views : views[t] = db[t]
  /\ failure = "load" =>
       /\ \A r \in Reports : ~out[r].ran
       /\ spark = "stopped"
       /\ exitCode = 1
       /\ pc = "exit"

C8_Witness == failure = "load" /\ loaded > 0 /\ loaded < NumTables

\* C9 as stated: the rows of report 6 are sorted by the number of inactive
\* customers (in one direction or the other).
C9_SortedByInactive ==
  out[6].ran =>
    LET rows == out[6].rows
    IN \/ \A i \in 1..(Len(rows) - 1) :
            rows[i].inactive_customers >= rows[i+1].inactive_customers
       \/ \A i \in 1..(Len(rows) - 1) :
            rows[i].inactive_customers <= rows[i+1].inactive_customers

\* C10: for each city group on its own, report 7 shows exactly the categories
\* whose rental minutes in that group are the maximum of the group, each
\* once, with total_hours the minutes divided by 60; a group without rentals
\* has no row; 'Contains hyphen' rows come before 'Starts with a' rows.
C10_TopPerGroup ==
  out[7].ran =>
    LET rows == out[7].rows
        Present(g) == { x.category : x \in { y \in RentalFacts :
                          /\ StartsWithLowerA(y.city) \/ HasHyphen(y.city)
                          /\ GroupOf(y.city) = g } }
        Best(g) == { n \in Present(g) :
                       \A m \in Present(g) : MinutesOf(g, m) <= MinutesOf(g, n) }
    IN /\ \A i \in 1..Len(rows) : rows[i].city_group \in CityGroups
       /\ \A g \in CityGroups :
            LET is == { i \in 1..Len(rows) : rows[i].city_group = g }
            IN /\ { rows[i].category_name : i \in is } = Best(g)
               /\ Cardinality(is) = Cardinality(Best(g))
               /\ \A i \in is :
                    LET d == MinutesPerHour * rows[i].total_hours
                             - HoursScale * MinutesOf(g, rows[i].category_name)
                    IN 2 * d <= MinutesPerHour /\ 0 - MinutesPerHour <= 2 * d
       /\ \A i, j \in 1..Len(rows) :
            i < j => ~(rows[i].city_group = StartsWithA
                       /\ rows[j].city_group = ContainsHyphen)

C10_Witness ==
  /\ out[7].ran
  /\ Len(out[7].rows) = 3
  /\ \E i, j \in 1..3 : out[7].rows[i].total_hours # out[7].rows[j].total_hours

====
